---------------------------- MODULE Spec2Model ----------------------------
(***************************************************************************)
(* Model of deneb: chart recipes over a declarative charting library.      *)
(*                                                                         *)
(*   Spec       pairplot (src/deneb/pairplot.py): limits validation and    *)
(*              the Matrix grid assembly (fields, upper, diag, lower,      *)
(*              render).                                                   *)
(*   SpecCorr   correlation_matrix (src/deneb/correlation_matrix.py).      *)
(*   SpecMerge  the deep merge set_style builds its theme with             *)
(*              (src/deneb/themes.py), on three fragments.                 *)
(*   SpecStyle  one set_style call over all its options, then get_style.   *)
(*   SpecTheme  sequences of set_style and get_style calls.                *)
(*   SpecNp     np2df (src/deneb/utils.py).                                *)
(*   SpecHex    rgb2hex followed by hex2rgb (src/deneb/utils.py).          *)
(*   SpecConvert  convert_file (src/deneb/utils.py).                       *)
(*   SpecMatrix the Matrix passes of pairplot called in any order.         *)
(***************************************************************************)
EXTENDS Integers, Sequences, FiniteSets, TLC

(***************************************************************************)
(* Bounds of the model.                                                    *)
(***************************************************************************)
MaxDims == 3        \* dimension columns of the pairplot dataframe
MaxLimLen == 3      \* length of the limits list passed to pairplot
MaxMetrics == 3     \* length of the metrics list passed to correlation_matrix
MaxCalls == 3       \* set_style calls in one run
MaxArrays == 2      \* arrays in the samples list passed to np2df
MaxRows == 2        \* rows of one sample array
MaxPasses == 3      \* Matrix passes called before render

(***************************************************************************)
(* Python values shared by the recipes.                                    *)
(***************************************************************************)
None == "None"
Undefined == "Undefined"    \* a keyword argument that was not passed

VARIABLES
  \* ---- pairplot(df, field, limits, ..., interactive, debug) ----
  pc,            \* position inside pairplot
  err,           \* exception that aborted the call, or None
  df_columns,    \* list(df.columns)
  field,         \* name of the sample-identifier column
  limits,        \* the limits argument: [kind, elems]
  debug,         \* the debug flag
  interactive,   \* Matrix.interactive
  labels_dim,    \* pairplot: labels_dim
  limits_dim,    \* pairplot: limits_dim, a map label -> range
  rows,          \* Matrix.rows
  cols,          \* Matrix.cols
  grid,          \* Matrix.grid
  chart,         \* result of Matrix.render: rows of cells
  passes,        \* the Matrix passes called so far, in call order
  \* ---- correlation_matrix(df, metrics, ..., sparse, white_font) ----
  cm_pc,         \* position inside correlation_matrix
  corr,          \* pairwise correlations of the columns of df, in 1/100
  metrics,       \* the metrics argument
  sparse,        \* the sparse flag
  white_font,    \* the white_font threshold, in 1/100
  valid_metrics, \* correlation_matrix: valid_metrics
  corrMatrix,    \* correlation_matrix: corrMatrix, the melted table
  cm_cells,      \* the cells the chart draws, with their text colour
  \* ---- merge({}, A, B, C) and merge({}, A, merge({}, B, C)) ----
  mg_pc,         \* position
  fragA,         \* first fragment
  fragB,         \* second fragment
  fragC,         \* third fragment
  mergedLeft,    \* merge({}, A, B, C)
  mergedRight,   \* merge({}, A, merge({}, B, C))
  \* ---- set_style / get_style and the theme registry ----
  th_registry,   \* alt.themes: the registered themes, name -> dictionary
  th_active,     \* alt.themes: the name of the enabled theme
  th_opts,       \* the options of the most recent set_style call
  th_calls,      \* number of set_style calls so far
  th_ret,        \* what the most recent call returned
  \* ---- np2df(samples, field, labels_samples, labels_dim, drop_dim) ----
  np_pc,         \* position inside np2df
  np_err,        \* exception that aborted the call, or None
  samples,       \* the arrays, as a list
  is_list,       \* whether samples was passed as a list
  np_field,      \* the field argument
  labels_samples,\* the labels_samples argument: [kind, vals]
  np_labels_dim, \* the labels_dim argument: [kind, vals]
  drop_dim,      \* the drop_dim argument: [kind, vals]
  np_df,         \* the returned table: [columns, rows]
  \* ---- hex2rgb(rgb2hex(r, g, b)) ----
  hx_pc,         \* position
  hx_r,          \* rgb2hex: r
  hx_g,          \* rgb2hex: g
  hx_b,          \* rgb2hex: b
  hx_hex,        \* what rgb2hex returned: a string, as its characters
  hx_err,        \* exception that aborted hex2rgb, or None
  hx_rgb,        \* what hex2rgb returned: a tuple
  \* ---- convert_file(fn, to, dpi, background, debug) ----
  cv_pc,         \* position inside convert_file
  cv_fn,         \* the fn argument: a path
  cv_to,         \* the to argument
  cv_dpi,        \* the dpi argument
  cv_background, \* the background argument, or None
  cv_debug,      \* the debug argument
  cv_cmd,        \* the command handed to the shell: its pieces
  cv_printed,    \* whether the command was printed
  cv_ret         \* what convert_file returned: a path, or None

ppVars == <<pc, err, df_columns, field, limits, debug, interactive,
            labels_dim, limits_dim, rows, cols, grid, chart, passes>>

cmVars == <<cm_pc, corr, metrics, sparse, white_font, valid_metrics,
            corrMatrix, cm_cells>>

mgVars == <<mg_pc, fragA, fragB, fragC, mergedLeft, mergedRight>>

thVars == <<th_registry, th_active, th_opts, th_calls, th_ret>>

npVars == <<np_pc, np_err, samples, is_list, np_field, labels_samples,
            np_labels_dim, drop_dim, np_df>>

hxVars == <<hx_pc, hx_r, hx_g, hx_b, hx_hex, hx_err, hx_rgb>>

cvVars == <<cv_pc, cv_fn, cv_to, cv_dpi, cv_background, cv_debug, cv_cmd,
            cv_printed, cv_ret>>

vars == <<ppVars, cmVars, mgVars, thVars, npVars, hxVars, cvVars>>

\* What the calls of one recipe leave alone: the state of the others.
ppOthers == <<cmVars, mgVars, thVars, npVars, hxVars, cvVars>>
cmOthers == <<ppVars, mgVars, thVars, npVars, hxVars, cvVars>>
mgOthers == <<ppVars, cmVars, thVars, npVars, hxVars, cvVars>>
thOthers == <<ppVars, cmVars, mgVars, npVars, hxVars, cvVars>>
npOthers == <<ppVars, cmVars, mgVars, thVars, hxVars, cvVars>>
hxOthers == <<ppVars, cmVars, mgVars, thVars, npVars, cvVars>>
cvOthers == <<ppVars, cmVars, mgVars, thVars, npVars, hxVars>>

(***************************************************************************)
(* pairplot: inputs.                                                       *)
(***************************************************************************)
DimNames == <<"a", "b", "c", "d", "e", "f">>

\* The first n dimension labels.
Dims(n) == [k \in 1..n |-> DimNames[k]]

\* s with x inserted so that it ends up at position p (1..Len(s)+1).
InsertAt(s, p, x) == SubSeq(s, 1, p - 1) \o <<x>> \o SubSeq(s, p, Len(s))

\* Columns of a dataframe with n dimensions and the field column at
\* position p; p = 0 is a dataframe that has no field column.
DfColumns(n, p, f) == IF p = 0 THEN Dims(n) ELSE InsertAt(Dims(n), p, f)

\* A limits argument.  kind is the Python type of the argument and of its
\* elements: "None", "tuple" (not a list), "floats" (a list of floats),
\* "ints" (a list of ints), "lists" (a list of [lo, hi] lists).  The k-th
\* scalar element is k - 1; the k-th range is <<10k, 10k + 5>>.
LimitsArgs ==
  {[kind |-> None, elems |-> <<>>], [kind |-> "tuple", elems |-> <<0, 1>>]}
  \cup {[kind |-> "floats", elems |-> [k \in 1..n |-> k - 1]] : n \in 0..MaxLimLen}
  \cup {[kind |-> "ints", elems |-> [k \in 1..n |-> k - 1]] : n \in 0..MaxLimLen}
  \cup {[kind |-> "lists", elems |-> [k \in 1..n |-> <<10 * k, 10 * k + 5>>]] :
          n \in 0..MaxLimLen}

(***************************************************************************)
(* Chart specifications built by pairplot.                                 *)
(***************************************************************************)
\* alt.Axis(...): keyword arguments that are not passed stay Undefined and
\* the charting engine applies its defaults (labels and ticks drawn, the
\* title taken from the field).
Axis(title, labels, domainWidth, tickWidth, values) ==
  [title |-> title, labels |-> labels, domainWidth |-> domainWidth,
   tickWidth |-> tickWidth, values |-> values]

\* alt.Axis(title="", labels=False, domainWidth=0, tickWidth=0)
SuppressedAxis == Axis("", "False", "0", "0", <<>>)

NoAxis == Axis(Undefined, Undefined, Undefined, Undefined, <<>>)

\* An empty grid cell.
NoneCell == [mark |-> None, x |-> "", y |-> "", xaxis |-> NoAxis,
             yaxis |-> NoAxis, xdomain |-> <<>>, ydomain |-> <<>>,
             interactive |-> FALSE]

\* axis_limits of make_upper / make_diag: {"values": limits_dim[r]} or {}.
AxisLimits(r) == IF limits.kind # None THEN limits_dim[r] ELSE <<>>

ScaleDomain(r) == IF limits.kind # None THEN limits_dim[r] ELSE <<>>

\* Mutant: the debug axis of a scatter built like the debug y axis of a
\* histogram, with labels=False.
make_upper_debug_axis_NoLabels(title, r) ==
  Axis(title, "False", Undefined, Undefined, AxisLimits(r))
make_upper_debug_axis(title, r) == Axis(title, Undefined, Undefined, Undefined, AxisLimits(r))

make_upper(r, w, no_x, no_y) ==
  LET x_axis == IF no_x THEN SuppressedAxis
                ELSE Axis(Undefined, Undefined, Undefined, Undefined, AxisLimits(r))
      y_axis == IF no_y THEN SuppressedAxis
                ELSE Axis(w, "False", "0", "0", AxisLimits(r))
  IN [mark |-> "circle", x |-> r, y |-> w,
      xaxis |-> IF debug THEN make_upper_debug_axis(r, r) ELSE x_axis,
      yaxis |-> IF debug THEN make_upper_debug_axis(w, r) ELSE y_axis,
      xdomain |-> ScaleDomain(r), ydomain |-> ScaleDomain(w),
      interactive |-> FALSE]

make_lower(r, w, no_x, no_y) == make_upper(r, w, no_x, no_y)

make_diag(r, no_x, no_y) ==
  LET x_axis == IF no_x THEN SuppressedAxis
                ELSE Axis(r, Undefined, Undefined, Undefined, AxisLimits(r))
      y_axis == IF no_y THEN SuppressedAxis
                ELSE Axis(r, "False", "0", "0", <<>>)
  IN [mark |-> "bar", x |-> r, y |-> "count()",
      xaxis |-> IF debug
                THEN Axis(r, Undefined, Undefined, Undefined, AxisLimits(r))
                ELSE x_axis,
      yaxis |-> IF debug
                THEN Axis(r, "False", Undefined, Undefined, <<>>)
                ELSE y_axis,
      xdomain |-> ScaleDomain(r), ydomain |-> <<>>,
      interactive |-> FALSE]

\* chart.interactive() when Matrix.interactive is set.
Interact(c) == IF interactive THEN [c EXCEPT !.interactive = TRUE] ELSE c

(***************************************************************************)
(* Matrix: the three passes and render, as functions of the grid.          *)
(***************************************************************************)
\* no_x / no_y of Matrix.diag and Matrix.lower (0-based i, j in the source).
DiagNoX(i) == ~(i = Len(rows))
\* Mutant: the y axis kept in the last row instead of the first column.
DiagNoY_LastRow(i) == ~(i = Len(rows))
DiagNoY(i) == ~(i = 1)
LowerNoX(i, j) == ~(i = Len(rows))
LowerNoY(i, j) == ~(j = 1)

DiagCell(i) == Interact(make_diag(rows[i], DiagNoX(i), DiagNoY(i)))

\* Mutant: the lower pass hands the row field first.
LowerCell_Swapped(i, j) ==
  Interact(make_lower(rows[i], rows[j], LowerNoX(i, j), LowerNoY(i, j)))
LowerCell(i, j) == Interact(make_lower(rows[j], rows[i], LowerNoX(i, j), LowerNoY(i, j)))

UpperCell(i, j) == Interact(make_upper(cols[j], rows[i], TRUE, TRUE))

InLower(i, j) == i > j

\* Mutant: the upper pass skips the first superdiagonal.
InUpper_Skip(i, j) == j > i + 1
InUpper(i, j) == j > i

DiagGrid(g) ==
  [i \in DOMAIN g |-> [j \in DOMAIN g[i] |-> IF i = j THEN DiagCell(i) ELSE g[i][j]]]

LowerGrid(g) ==
  [i \in DOMAIN g |-> [j \in DOMAIN g[i] |->
      IF InLower(i, j) THEN LowerCell(i, j) ELSE g[i][j]]]

UpperGrid(g) ==
  [i \in DOMAIN g |-> [j \in DOMAIN g[i] |->
      IF InUpper(i, j) THEN UpperCell(i, j) ELSE g[i][j]]]

\* The populated cells of grid row i, in increasing column order.
RECURSIVE RowCells(_, _, _)
RowCells(g, i, j) ==
  IF j > Len(cols) THEN <<>>
  ELSE (IF g[i][j] # NoneCell THEN <<g[i][j]>> ELSE <<>>) \o RowCells(g, i, j + 1)

\* Mutant: every grid row becomes a row of the chart, empty or not.
RECURSIVE RenderRows_KeepEmpty(_, _)
RenderRows_KeepEmpty(g, i) ==
  IF i > Len(rows) THEN <<>>
  ELSE <<RowCells(g, i, 1)>> \o RenderRows_KeepEmpty(g, i + 1)

\* The non-empty rows from grid row i on.
RECURSIVE RenderRows(_, _)
RenderRows(g, i) ==
  IF i > Len(rows) THEN <<>>
  ELSE LET row == RowCells(g, i, 1)
       IN (IF Len(row) > 0 THEN <<row>> ELSE <<>>) \o RenderRows(g, i + 1)

(***************************************************************************)
(* pairplot: the call, step by step.                                       *)
(***************************************************************************)
PPInit ==
  /\ pc = "start"
  /\ err = None
  /\ field = "samples"
  /\ \E n \in 0..MaxDims : \E p \in 0..(n + 1) : df_columns = DfColumns(n, p, field)
  /\ limits \in LimitsArgs
  /\ debug \in BOOLEAN
  /\ interactive \in BOOLEAN
  /\ labels_dim = <<>>
  /\ limits_dim = <<>>
  /\ rows = <<>>
  /\ cols = <<>>
  /\ grid = <<>>
  /\ chart = <<>>
  /\ passes = <<>>

\* labels_dim of line 54.
LabelsDim == SelectSeq(df_columns, LAMBDA c : c # field)

\* The exception raised by lines 55-64, or None.
ValidateError ==
  IF Len(df_columns) # Len(LabelsDim) + 1 THEN "AssertionError"
  ELSE IF limits.kind = None THEN None
  ELSE IF limits.kind = "tuple" THEN "AssertionError"
  ELSE IF Len(limits.elems) = 0 THEN "IndexError"
  ELSE IF limits.kind = "floats"
    THEN (IF Len(limits.elems) # 2 THEN "AssertionError" ELSE None)
  ELSE IF limits.kind # "lists" THEN "AssertionError"
  ELSE IF Len(LabelsDim) > Len(limits.elems) THEN "IndexError"
  ELSE None

\* limits_dim of lines 61 and 64.
LimitsDim ==
  IF limits.kind = "floats"
  THEN [d \in {LabelsDim[k] : k \in 1..Len(LabelsDim)} |-> limits.elems]
  ELSE [d \in {LabelsDim[k] : k \in 1..Len(LabelsDim)} |->
          limits.elems[CHOOSE k \in 1..Len(LabelsDim) : LabelsDim[k] = d]]

\* Lines 54-64, and Matrix.__init__ of line 185.
Validate ==
  /\ pc = "start"
  /\ IF ValidateError # None
     THEN /\ pc' = "aborted"
          /\ err' = ValidateError
          /\ UNCHANGED <<labels_dim, limits_dim>>
     ELSE /\ pc' = "matrix"
          /\ labels_dim' = LabelsDim
          /\ limits_dim' = IF limits.kind = None THEN <<>> ELSE LimitsDim
          /\ err' = None
  /\ UNCHANGED <<df_columns, field, limits, debug, interactive, rows, cols, grid,
                 chart, passes>>
  /\ UNCHANGED ppOthers

\* Matrix.fields(*labels_dim)
Fields ==
  /\ pc = "matrix"
  /\ pc' = "fields"
  /\ cols' = labels_dim
  /\ rows' = labels_dim
  /\ grid' = [i \in 1..Len(labels_dim) |-> [j \in 1..Len(labels_dim) |-> NoneCell]]
  /\ UNCHANGED <<err, df_columns, field, limits, debug, interactive, labels_dim,
                 limits_dim, chart, passes>>
  /\ UNCHANGED ppOthers

\* Matrix.upper(make_upper)
Upper ==
  /\ pc = "fields"
  /\ pc' = "upper"
  /\ grid' = UpperGrid(grid)
  /\ passes' = Append(passes, "upper")
  /\ UNCHANGED <<err, df_columns, field, limits, debug, interactive, labels_dim,
                 limits_dim, rows, cols, chart>>
  /\ UNCHANGED ppOthers

\* Matrix.diag(make_diag)
Diag ==
  /\ pc = "upper"
  /\ pc' = "diag"
  /\ grid' = DiagGrid(grid)
  /\ passes' = Append(passes, "diag")
  /\ UNCHANGED <<err, df_columns, field, limits, debug, interactive, labels_dim,
                 limits_dim, rows, cols, chart>>
  /\ UNCHANGED ppOthers

\* Matrix.lower(make_lower)
Lower ==
  /\ pc = "diag"
  /\ pc' = "lower"
  /\ grid' = LowerGrid(grid)
  /\ passes' = Append(passes, "lower")
  /\ UNCHANGED <<err, df_columns, field, limits, debug, interactive, labels_dim,
                 limits_dim, rows, cols, chart>>
  /\ UNCHANGED ppOthers

\* Matrix.render()
Render ==
  /\ pc = "lower"
  /\ pc' = "rendered"
  /\ chart' = RenderRows(grid, 1)
  /\ UNCHANGED <<err, df_columns, field, limits, debug, interactive, labels_dim,
                 limits_dim, rows, cols, grid, passes>>
  /\ UNCHANGED ppOthers

(***************************************************************************)
(* Claims about pairplot.                                                  *)
(***************************************************************************)
NDims == Len(labels_dim)

GridCells == UNION {{<<i, j>> : j \in DOMAIN grid[i]} : i \in DOMAIN grid}

Populated == {c \in GridCells : grid[c[1]][c[2]] # NoneCell}

DiagCells == {c \in (1..NDims) \X (1..NDims) : c[1] = c[2]}

LowerCells == {c \in (1..NDims) \X (1..NDims) : c[1] > c[2]}

UpperCells == {c \in (1..NDims) \X (1..NDims) : c[2] > c[1]}

Assembled == pc \in {"lower", "rendered"}

\* C1: over N dimension fields the grid is exactly the N x N index range;
\* fields leaves it empty, the upper pass populates exactly the N(N-1)/2
\* cells with j > i, the diag pass adds exactly the N cells (i,i), the
\* lower pass adds exactly the N(N-1)/2 cells with i > j, and afterwards
\* every cell of the range is populated and no other cell exists.
C1_GridPopulation ==
  pc \in {"fields", "upper", "diag", "lower", "rendered"} =>
    /\ GridCells = (1..NDims) \X (1..NDims)
    /\ Cardinality(DiagCells) = NDims
    /\ 2 * Cardinality(LowerCells) = NDims * (NDims - 1)
    /\ 2 * Cardinality(UpperCells) = NDims * (NDims - 1)
    /\ pc = "fields" => Populated = {}
    /\ pc = "upper" => Populated = UpperCells
    /\ pc = "diag" => Populated = UpperCells \cup DiagCells
    /\ Assembled => /\ Populated = UpperCells \cup DiagCells \cup LowerCells
                    /\ Cardinality(Populated \cap DiagCells) = NDims
                    /\ 2 * Cardinality(Populated \cap LowerCells) = NDims * (NDims - 1)
                    /\ 2 * Cardinality(Populated \cap UpperCells) = NDims * (NDims - 1)

C1_Witness == pc = "lower" /\ NDims = 3 /\ Cardinality(Populated) = 9

\* C2: in the assembled grid the diagonal cell (i,i) is the histogram of
\* dimension i, the lower cell (i,j), i > j, is the scatter with dimension j
\* on x and dimension i on y, and the upper cell (i,j), j > i, is the scatter
\* of the same pair as lower cell (j,i) with x and y swapped.
C2_CellContents ==
  Assembled =>
    /\ \A c \in DiagCells :
         /\ grid[c[1]][c[2]].mark = "bar"
         /\ grid[c[1]][c[2]].x = labels_dim[c[1]]
         /\ grid[c[1]][c[2]].y = "count()"
    /\ \A c \in LowerCells :
         /\ grid[c[1]][c[2]].mark = "circle"
         /\ grid[c[1]][c[2]].x = labels_dim[c[2]]
         /\ grid[c[1]][c[2]].y = labels_dim[c[1]]
    /\ \A c \in UpperCells :
         /\ grid[c[1]][c[2]].mark = "circle"
         /\ grid[c[1]][c[2]].x = grid[c[2]][c[1]].y
         /\ grid[c[1]][c[2]].y = grid[c[2]][c[1]].x

C2_Witness ==
  /\ pc = "lower" /\ NDims = 3
  /\ grid[3][1].x = "a" /\ grid[3][1].y = "c"
  /\ grid[1][3].x = "c" /\ grid[1][3].y = "a"

\* What the charting engine draws for an axis: tick labels unless
\* labels=False, tick marks unless tickWidth=0, a title unless title="".
LabelsShown(axis) == axis.labels # "False"
TicksShown(axis) == axis.tickWidth # "0"
TitleShown(axis) == axis.title # ""

\* C3 as stated: with debug off, x-axis labels and tick marks are shown
\* exactly in the last row and y-axis labels and tick marks exactly in the
\* first column, and suppressed in every other cell.
C3_AsStated ==
  (Assembled /\ ~debug) =>
    \A c \in GridCells :
      LET cell == grid[c[1]][c[2]] IN
      /\ IF c[1] = NDims
         THEN LabelsShown(cell.xaxis) /\ TicksShown(cell.xaxis)
         ELSE ~LabelsShown(cell.xaxis) /\ ~TicksShown(cell.xaxis)
      /\ IF c[2] = 1
         THEN LabelsShown(cell.yaxis) /\ TicksShown(cell.yaxis)
         ELSE ~LabelsShown(cell.yaxis) /\ ~TicksShown(cell.yaxis)

\* C3 (amended): with debug off, x-axis labels, tick marks and title are
\* shown exactly in the cells of the last row; the y-axis title is shown
\* exactly in the cells of the first column; y-axis tick labels and tick
\* marks are suppressed in every cell, the first column included.
C3_EdgeAxes ==
  (Assembled /\ ~debug) =>
    \A c \in GridCells :
      LET cell == grid[c[1]][c[2]] IN
      /\ IF c[1] = NDims
         THEN LabelsShown(cell.xaxis) /\ TicksShown(cell.xaxis) /\ TitleShown(cell.xaxis)
         ELSE ~LabelsShown(cell.xaxis) /\ ~TicksShown(cell.xaxis) /\ ~TitleShown(cell.xaxis)
      /\ TitleShown(cell.yaxis) <=> (c[2] = 1)
      /\ ~LabelsShown(cell.yaxis)
      /\ ~TicksShown(cell.yaxis)

C3_Witness ==
  /\ pc = "lower" /\ ~debug /\ NDims = 3
  /\ grid[3][1].yaxis.title = "c" /\ ~LabelsShown(grid[3][1].yaxis)
  /\ LabelsShown(grid[3][2].xaxis) /\ ~TitleShown(grid[3][2].yaxis)
  /\ ~LabelsShown(grid[1][1].xaxis) /\ TitleShown(grid[1][1].yaxis)

\* C13 as stated: with debug on, every cell of the grid, at every position,
\* shows tick labels on its x axis and on its y axis.
C13_AsStated ==
  (pc \in {"upper", "diag", "lower", "rendered"} /\ debug) =>
    \A c \in Populated :
      /\ LabelsShown(grid[c[1]][c[2]].xaxis)
      /\ LabelsShown(grid[c[1]][c[2]].yaxis)

\* C13 (amended): with debug on, every cell, at every position, shows the
\* title, the tick marks and the tick labels of its x axis and the title
\* and the tick marks of its y axis; the tick labels of the y axis are
\* shown in the scatter cells (upper and lower) and suppressed in the
\* diagonal cells.
C13_DebugAxes ==
  (pc \in {"upper", "diag", "lower", "rendered"} /\ debug) =>
    \A c \in Populated :
      LET cell == grid[c[1]][c[2]] IN
      /\ LabelsShown(cell.xaxis) /\ TicksShown(cell.xaxis)
      /\ cell.xaxis.title = cell.x
      /\ TicksShown(cell.yaxis)
      /\ cell.yaxis.title = IF c \in DiagCells THEN cell.x ELSE cell.y
      /\ LabelsShown(cell.yaxis) <=> c \notin DiagCells

C13_Witness ==
  /\ pc = "lower" /\ debug /\ NDims = 3
  /\ LabelsShown(grid[1][3].xaxis) /\ LabelsShown(grid[1][3].yaxis)
  /\ LabelsShown(grid[3][1].xaxis) /\ LabelsShown(grid[3][1].yaxis)
  /\ LabelsShown(grid[2][2].xaxis) /\ ~LabelsShown(grid[2][2].yaxis)
  /\ grid[2][2].yaxis.title = "b"

\* The two shapes of limits the claim names: one range [lo, hi], or one
\* range per dimension.
SingleRange == limits.kind = "floats" /\ Len(limits.elems) = 2
OnePerDimension == limits.kind = "lists" /\ Len(limits.elems) = Len(LabelsDim)

\* C4: a single range is used for every dimension, a per-dimension list
\* assigns range k to the k-th dimension, and limits of any other shape
\* abort with an assertion failure before any chart is built.
C4_LimitsShape ==
  (pc # "start" /\ limits.kind # None /\ Len(df_columns) = Len(LabelsDim) + 1) =>
    IF SingleRange
    THEN pc # "aborted" /\ \A k \in 1..NDims : limits_dim[labels_dim[k]] = limits.elems
    ELSE IF OnePerDimension
    THEN pc # "aborted" /\ \A k \in 1..NDims : limits_dim[labels_dim[k]] = limits.elems[k]
    ELSE pc = "aborted" /\ err = "AssertionError" /\ grid = <<>>

(***************************************************************************)
(* correlation_matrix.                                                     *)
(***************************************************************************)
\* Column names are strings, written as their sequences of code units so
\* that the comparison of the filter expression can be computed.
Str_a == <<97>>
Str_b == <<98>>
Str_ab == <<97, 98>>
Str_zz == <<122, 122>>

\* The columns of df, and the names a caller may ask for.
CmColumns == {Str_a, Str_b, Str_ab}
MetricNames == CmColumns \cup {Str_zz}

\* The correlations a pair of distinct columns may have, in 1/100.
CorrValues == {-90, 20, 90}
WhiteFonts == {0, 50}

ColumnPairs == {{x, y} : x, y \in CmColumns} \ {{x} : x \in CmColumns}

\* Lists of metric names of length 0..n.
MetricLists(n) == UNION {[1..k -> MetricNames] : k \in 0..n}

\* The relational operator < of the filter expression on two strings:
\* code unit by code unit, a proper prefix first.
RECURSIVE StrLess(_, _)
StrLess(x, y) ==
  IF Len(y) = 0 THEN FALSE
  ELSE IF Len(x) = 0 THEN TRUE
  ELSE IF Head(x) # Head(y) THEN Head(x) < Head(y)
  ELSE StrLess(Tail(x), Tail(y))

\* df_valid.corr(): symmetric, 1 on the diagonal.
Corr(x, y) == IF x = y THEN 100 ELSE corr[{x, y}]

\* df_valid.corr().reset_index().melt("index") with the columns renamed:
\* one row per (row label, column label), column by column.
Melt(vm) ==
  LET n == Len(vm) IN
  [k \in 1..(n * n) |->
     LET r == ((k - 1) % n) + 1
         c == ((k - 1) \div n) + 1
     IN [var1 |-> vm[r], var2 |-> vm[c], correlation |-> Corr(vm[r], vm[c])]]

\* Mutant: the colour is chosen on the magnitude of the correlation.
TextColor_Abs(c) ==
  IF (IF c < 0 THEN -c ELSE c) > white_font THEN "white" ELSE "black"
\* alt.condition(f"datum.correlation > {white_font}", white, black)
TextColor(c) == IF c > white_font THEN "white" ELSE "black"

\* Mutant: the filter keeps the diagonal.
SparseFilter_Diag(d) == ~StrLess(d.var2, d.var1)
\* transform_filter("datum.var1 < datum.var2")
SparseFilter(d) == StrLess(d.var1, d.var2)

CMInit ==
  /\ cm_pc = "start"
  /\ corr \in [ColumnPairs -> CorrValues]
  /\ metrics \in MetricLists(MaxMetrics)
  /\ sparse \in BOOLEAN
  /\ white_font \in WhiteFonts
  /\ valid_metrics = <<>>
  /\ corrMatrix = <<>>
  /\ cm_cells = <<>>

CMIdle ==
  /\ cm_pc = "idle"
  /\ corr = <<>>
  /\ metrics = <<>>
  /\ sparse = FALSE
  /\ white_font = 0
  /\ valid_metrics = <<>>
  /\ corrMatrix = <<>>
  /\ cm_cells = <<>>

\* Mutant: the requested metrics that are columns, last request first.
ValidMetrics_Reversed(ms, columns) ==
  LET kept == SelectSeq(ms, LAMBDA m : m \in columns)
  IN [k \in 1..Len(kept) |-> kept[Len(kept) + 1 - k]]

\* Line 38: [m for m in metrics if m in df.columns]
ValidMetrics(ms, columns) == SelectSeq(ms, LAMBDA m : m \in columns)

\* Lines 38-39: the requested metrics that are columns of df.
CorrFilter ==
  /\ cm_pc = "start"
  /\ cm_pc' = "filtered"
  /\ valid_metrics' = ValidMetrics(metrics, CmColumns)
  /\ UNCHANGED <<corr, metrics, sparse, white_font, corrMatrix, cm_cells>>
  /\ UNCHANGED cmOthers

\* Lines 41-42.
CorrMelt ==
  /\ cm_pc = "filtered"
  /\ cm_pc' = "melted"
  /\ corrMatrix' = Melt(valid_metrics)
  /\ UNCHANGED <<corr, metrics, sparse, white_font, valid_metrics, cm_cells>>
  /\ UNCHANGED cmOthers

\* Lines 64-79: the heat map and its text layer.
CorrLayers ==
  /\ cm_pc = "melted"
  /\ cm_pc' = "layered"
  /\ cm_cells' = [k \in 1..Len(corrMatrix) |->
                    [var1 |-> corrMatrix[k].var1, var2 |-> corrMatrix[k].var2,
                     correlation |-> corrMatrix[k].correlation,
                     color |-> TextColor(corrMatrix[k].correlation)]]
  /\ UNCHANGED <<corr, metrics, sparse, white_font, valid_metrics, corrMatrix>>
  /\ UNCHANGED cmOthers

\* Lines 81-82.
CorrSparse ==
  /\ cm_pc = "layered"
  /\ cm_pc' = "done"
  /\ cm_cells' = IF sparse THEN SelectSeq(cm_cells, SparseFilter) ELSE cm_cells
  /\ UNCHANGED <<corr, metrics, sparse, white_font, valid_metrics, corrMatrix>>
  /\ UNCHANGED cmOthers

(***************************************************************************)
(* Claims about correlation_matrix.                                        *)
(***************************************************************************)
\* Position of a valid metric in the order of the correlated metrics.
MetricIndex(m) == CHOOSE k \in 1..Len(valid_metrics) : valid_metrics[k] = m

DrawnPairs == {<<cm_cells[k].var1, cm_cells[k].var2>> : k \in 1..Len(cm_cells)}

ValidSet == {valid_metrics[k] : k \in 1..Len(valid_metrics)}

\* C5 as stated: with sparse on, the cells that remain are exactly those
\* whose row index is strictly less than their column index in the order
\* of the correlated metrics.
C5_AsStated ==
  (cm_pc = "done" /\ sparse) =>
    DrawnPairs = {p \in ValidSet \X ValidSet : MetricIndex(p[1]) < MetricIndex(p[2])}

\* C5 (amended): with sparse on, the cells that remain are exactly those
\* whose row metric name is strictly less than their column metric name as
\* strings; one cell of every pair of distinct metrics remains and no
\* diagonal cell; this is the index upper triangle when the metrics are
\* listed in ascending name order.
C5_SparseByName ==
  (cm_pc = "done" /\ sparse) =>
    /\ DrawnPairs = {p \in ValidSet \X ValidSet : StrLess(p[1], p[2])}
    /\ \A x, y \in ValidSet :
         (x # y) => ((<<x, y>> \in DrawnPairs) <=> (<<y, x>> \notin DrawnPairs))
    /\ \A x \in ValidSet : <<x, x>> \notin DrawnPairs
    /\ (\A i, j \in 1..Len(valid_metrics) :
          i < j => StrLess(valid_metrics[i], valid_metrics[j]))
       => DrawnPairs =
            {p \in ValidSet \X ValidSet : MetricIndex(p[1]) < MetricIndex(p[2])}

C5_Witness ==
  /\ cm_pc = "done" /\ sparse
  /\ valid_metrics = <<Str_b, Str_a, Str_ab>>
  /\ DrawnPairs = {<<Str_a, Str_b>>, <<Str_a, Str_ab>>, <<Str_ab, Str_b>>}

Abs(c) == IF c < 0 THEN -c ELSE c

\* C6 as stated: a cell's text is white when the magnitude of its
\* correlation exceeds white_font and black otherwise, so a correlation c
\* and its negation -c get the same colour.
C6_AsStated ==
  cm_pc \in {"layered", "done"} =>
    \A k \in 1..Len(cm_cells) :
      cm_cells[k].color =
        IF Abs(Corr(cm_cells[k].var1, cm_cells[k].var2)) > white_font
        THEN "white" ELSE "black"

\* C6 (amended): a cell's text is white when its signed correlation
\* exceeds white_font and black otherwise; a correlation below -white_font
\* is drawn black although its negation is drawn white.
C6_SignedThreshold ==
  cm_pc \in {"layered", "done"} =>
    \A k \in 1..Len(cm_cells) :
      LET c == Corr(cm_cells[k].var1, cm_cells[k].var2) IN
      /\ cm_cells[k].color = IF c > white_font THEN "white" ELSE "black"
      /\ (c < 0 /\ white_font >= 0) => cm_cells[k].color = "black"

C6_Witness ==
  /\ cm_pc = "done" /\ white_font = 50
  /\ \E k, l \in 1..Len(cm_cells) :
       /\ cm_cells[k].correlation = -90 /\ cm_cells[k].color = "black"
       /\ cm_cells[l].correlation = 90 /\ cm_cells[l].color = "white"

\* The k-th smallest element of a finite set of integers.
KthSmallest(S, k) == CHOOSE x \in S : Cardinality({y \in S : y < x}) = k - 1

\* The positions of the requested metrics that name a column of df.
ValidPositions == {k \in 1..Len(metrics) : metrics[k] \in CmColumns}

\* C14: for every list of requested metrics, the metrics correlated are
\* exactly the requested ones that are column names, in the requested
\* order, every other requested name dropped; the correlation table has
\* one row and one column per such metric, in that order; the filtering
\* step is always taken and nothing aborts, nonexistent names or not.
C14_ValidMetrics ==
  /\ cm_pc \in {"idle", "start", "filtered", "melted", "layered", "done"}
  /\ cm_pc = "start" => ENABLED CorrFilter
  /\ cm_pc \in {"filtered", "melted", "layered", "done"} =>
       /\ Len(valid_metrics) = Cardinality(ValidPositions)
       /\ \A n \in 1..Len(valid_metrics) :
            valid_metrics[n] = metrics[KthSmallest(ValidPositions, n)]
  /\ cm_pc \in {"melted", "layered", "done"} =>
       /\ Len(corrMatrix) = Len(valid_metrics) * Len(valid_metrics)
       /\ \A r, c \in 1..Len(valid_metrics) :
            LET row == corrMatrix[(c - 1) * Len(valid_metrics) + r]
            IN row.var1 = valid_metrics[r] /\ row.var2 = valid_metrics[c]

\* Some requested names are not columns: they are dropped, the rest keep
\* their order.
C14_Witness ==
  /\ cm_pc = "done"
  /\ metrics = <<Str_zz, Str_b, Str_a>>
  /\ valid_metrics = <<Str_b, Str_a>>
  /\ Len(corrMatrix) = 4

\* Every requested name is nonexistent: nothing is left to correlate.
C14_AllDropped ==
  /\ cm_pc = "done"
  /\ metrics = <<Str_zz, Str_zz>>
  /\ valid_metrics = <<>>
  /\ corrMatrix = <<>>

(***************************************************************************)
(* Nested dictionaries.  A dictionary is the set of its nodes: one node    *)
(* per key path, a leaf with its value or a nested dictionary; the paths   *)
(* of a dictionary are closed under prefixes.  {} is the empty set.        *)
(***************************************************************************)
Leaf(p, v) == [path |-> p, kind |-> "leaf", val |-> v]

DictNode(p) == [path |-> p, kind |-> "dict", val |-> ""]

IsPrefix(p, q) == Len(p) <= Len(q) /\ SubSeq(q, 1, Len(p)) = p

\* The dictionary with the given leaves, each <<path, value>>.
MkDict(leaves) ==
  {Leaf(l[1], l[2]) : l \in leaves}
  \cup UNION {{DictNode(SubSeq(l[1], 1, k)) : k \in 1..(Len(l[1]) - 1)} : l \in leaves}

HasKey(d, p) == \E n \in d : n.path = p

NodeAt(d, p) == CHOOSE n \in d : n.path = p

\* d[p], with the node at p itself.
SubTree(d, p) == {n \in d : IsPrefix(p, n.path)}

\* The keys of the dictionary d[p].
ChildKeys(d, p) ==
  {n.path[Len(p) + 1] : n \in {m \in d : Len(m.path) = Len(p) + 1 /\ IsPrefix(p, m.path)}}

\* Mutant: on a collision the value of the earlier fragment is kept.
ReplaceValue_KeepFirst(dst, src, q) == SubTree(dst, q)
\* Strategy.REPLACE: dst[key] = deepcopy(src[key]).
ReplaceValue(dst, src, q) == SubTree(src, q)

\* mergedeep's _deepmerge(dst[p], src[p]) with the default strategy: the
\* nodes below p afterwards.  A key of src that dst holds too is merged
\* recursively when both values are dictionaries and replaced by src's
\* value otherwise; a key only src holds is copied; the other keys of dst
\* stay.
RECURSIVE DeepMerge(_, _, _)
DeepMerge(dst, src, p) ==
  LET keys == ChildKeys(src, p)
      kept == {n \in dst : /\ IsPrefix(p, n.path)
                          /\ Len(n.path) > Len(p)
                          /\ n.path[Len(p) + 1] \notin keys}
      merged(k) ==
        LET q == Append(p, k) IN
        IF HasKey(dst, q)
        THEN IF NodeAt(dst, q).kind = "dict" /\ NodeAt(src, q).kind = "dict"
             THEN {DictNode(q)} \cup DeepMerge(dst, src, q)
             ELSE ReplaceValue(dst, src, q)
        ELSE SubTree(src, q)
  IN kept \cup UNION {merged(k) : k \in keys}

\* merge(destination, *sources): the sources folded in from the left.
RECURSIVE Merge(_, _)
Merge(destination, sources) ==
  IF Len(sources) = 0 THEN destination
  ELSE Merge(DeepMerge(destination, Head(sources), <<>>), Tail(sources))

(***************************************************************************)
(* The fragments of set_style that take no font option.                    *)
(***************************************************************************)
BoolStr(b) == IF b THEN "True" ELSE "False"

theme_grid(g) == MkDict({<<<<"config", "axis", "grid">>, BoolStr(g)>>})

theme_height(h) ==
  MkDict({<<<<"config", "view", "continuousHeight">>, h>>,
          <<<<"config", "view", "discreteHeight">>, h>>})

theme_width(w) ==
  MkDict({<<<<"config", "view", "continuousWidth">>, w>>,
          <<<<"config", "view", "discreteWidth">>, w>>})

theme_border(b) ==
  IF ~b THEN MkDict({<<<<"config", "view", "strokeWidth">>, "0">>}) ELSE {}

(***************************************************************************)
(* The merge on three fragments.                                           *)
(***************************************************************************)
\* Small fragments over two keys and two nested keys, with leaf value v:
\* each key is absent, a leaf, or a dictionary of any of the nested keys.
SmallFragments(v) ==
  LET top == {<<"k">>, <<"m">>}
      sub(t) == {t \o <<"x">>, t \o <<"y">>}
      shapes(t) == {{}, {Leaf(t, v)}}
                   \cup {{DictNode(t)} \cup {Leaf(q, v) : q \in qs} : qs \in SUBSET sub(t)}
  IN {a \cup b : a \in shapes(<<"k">>), b \in shapes(<<"m">>)}

\* The fragments the three positions are drawn from.
Fragments(v) ==
  SmallFragments(v)
  \cup {theme_border(FALSE), theme_height("100"), theme_width("100"), theme_grid(FALSE)}

MGInit ==
  /\ mg_pc = "start"
  /\ fragA \in Fragments("A")
  /\ fragB \in Fragments("B")
  /\ fragC \in Fragments("C")
  /\ mergedLeft = {}
  /\ mergedRight = {}

MGIdle ==
  /\ mg_pc = "idle"
  /\ fragA = {}
  /\ fragB = {}
  /\ fragC = {}
  /\ mergedLeft = {}
  /\ mergedRight = {}

\* merge({}, A, B, C)
MergeLeft ==
  /\ mg_pc = "start"
  /\ mg_pc' = "left"
  /\ mergedLeft' = Merge({}, <<fragA, fragB, fragC>>)
  /\ UNCHANGED <<fragA, fragB, fragC, mergedRight>>
  /\ UNCHANGED mgOthers

\* merge({}, A, merge({}, B, C))
MergeRight ==
  /\ mg_pc = "left"
  /\ mg_pc' = "done"
  /\ mergedRight' = Merge({}, <<fragA, Merge({}, <<fragB, fragC>>)>>)
  /\ UNCHANGED <<fragA, fragB, fragC, mergedLeft>>
  /\ UNCHANGED mgOthers

(***************************************************************************)
(* Claims about the merge.                                                 *)
(***************************************************************************)
Leaves(d) == {n \in d : n.kind = "leaf"}

\* Some key path holds a dictionary in one fragment and a leaf in the other.
KindClash(d, e) == \E n \in d, m \in e : n.path = m.path /\ n.kind # m.kind

KindConsistent ==
  ~KindClash(fragA, fragB) /\ ~KindClash(fragB, fragC) /\ ~KindClash(fragA, fragC)

\* A later fragment e collides with the leaf at p: it holds a value at p,
\* or a leaf where p runs through a dictionary.
Collides(e, p) ==
  \E m \in e : m.path = p \/ (m.kind = "leaf" /\ IsPrefix(m.path, p))

\* Right bias at the leaves, and the keys without a collision kept.
RightBiased ==
  /\ Leaves(fragC) \subseteq mergedLeft
  /\ \A n \in Leaves(fragB) : ~Collides(fragC, n.path) => n \in mergedLeft
  /\ \A n \in Leaves(fragA) :
       (~Collides(fragB, n.path) /\ ~Collides(fragC, n.path)) => n \in mergedLeft
  /\ (fragA = theme_border(FALSE) /\ fragB = theme_height("100")
        /\ fragC = theme_width("100"))
     => ChildKeys(mergedLeft, <<"config", "view">>) =
          {"strokeWidth", "continuousHeight", "discreteHeight",
           "continuousWidth", "discreteWidth"}

\* C7 as stated: for any fragments A, B, C, merging A then B then C equals
\* merging A with (B merged with C); the later fragment wins at a colliding
\* leaf key; nested keys that do not collide are all kept.
C7_AsStated ==
  mg_pc = "done" => (mergedLeft = mergedRight /\ RightBiased)

\* C7 (amended): merging A then B then C equals merging A with (B merged
\* with C) for fragments in which no key path holds a dictionary in one
\* fragment and a leaf in another; for any fragments the later fragment
\* wins at a colliding leaf key and nested keys that do not collide are
\* all kept.
C7_MergeAlgebra ==
  mg_pc = "done" =>
    /\ KindConsistent => mergedLeft = mergedRight
    /\ RightBiased

C7_Witness ==
  /\ mg_pc = "done"
  /\ KindConsistent
  /\ fragA = MkDict({<<<<"k", "x">>, "A">>})
  /\ fragB = MkDict({<<<<"k", "x">>, "B">>, <<<<"m">>, "B">>})
  /\ fragC = MkDict({<<<<"k", "y">>, "C">>})
  /\ mergedLeft = MkDict({<<<<"k", "x">>, "B">>, <<<<"k", "y">>, "C">>, <<<<"m">>, "B">>})
  /\ mergedRight = mergedLeft

(***************************************************************************)
(* set_style: the fragments of the font options.                           *)
(***************************************************************************)
_custom_font_family(font_family) ==
  IF font_family = None THEN {}
  ELSE MkDict({<<<<"config", "title", "font">>, font_family>>,
               <<<<"config", "axis", "labelFont">>, font_family>>,
               <<<<"config", "axis", "titleFont">>, font_family>>,
               <<<<"config", "header", "labelFont">>, font_family>>,
               <<<<"config", "header", "titleFont">>, font_family>>,
               <<<<"config", "legend", "labelFont">>, font_family>>,
               <<<<"config", "legend", "titleFont">>, font_family>>})

_custom_font_size_title(font_size) ==
  IF font_size = None THEN {}
  ELSE MkDict({<<<<"config", "title", "fontSize">>, font_size>>,
               <<<<"config", "axis", "titleFontSize">>, font_size>>,
               <<<<"config", "header", "titleFontSize">>, font_size>>,
               <<<<"config", "legend", "titleFontSize">>, font_size>>})

_custom_font_size_label(font_size) ==
  IF font_size = None THEN {}
  ELSE MkDict({<<<<"config", "axis", "labelFontSize">>, font_size>>,
               <<<<"config", "header", "labelFontSize">>, font_size>>,
               <<<<"config", "legend", "labelFontSize">>, font_size>>})

_custom_font_weight_title(font_weight) ==
  IF font_weight = None THEN {}
  ELSE MkDict({<<<<"config", "axis", "titleFontWeight">>, font_weight>>,
               <<<<"config", "header", "titleFontWeight">>, font_weight>>,
               <<<<"config", "legend", "titleFontWeight">>, font_weight>>})

_custom_font_weight_label(font_weight) ==
  IF font_weight = None THEN {}
  ELSE MkDict({<<<<"config", "axis", "labelFontWeight">>, font_weight>>,
               <<<<"config", "header", "labelFontWeight">>, font_weight>>,
               <<<<"config", "legend", "labelFontWeight">>, font_weight>>})

\* Mutant: font_size takes precedence over font_size_label.
LabelFontSize_General(o) ==
  IF o.font_size = None THEN o.font_size_label ELSE o.font_size
\* font_size if font_size_label is None else font_size_label
LabelFontSize(o) ==
  IF o.font_size_label = None THEN o.font_size ELSE o.font_size_label

TitleFontSize(o) ==
  IF o.font_size_title = None THEN o.font_size ELSE o.font_size_title

LabelFontWeight(o) ==
  IF o.font_weight_label = None THEN o.font_weight ELSE o.font_weight_label

TitleFontWeight(o) ==
  IF o.font_weight_title = None THEN o.font_weight ELSE o.font_weight_title

\* The sources of the merge of lines 77-89, in order.
StyleFragments(o) ==
  <<theme_border(o.border),
    _custom_font_family(o.font_family),
    _custom_font_size_label(LabelFontSize(o)),
    _custom_font_size_title(TitleFontSize(o)),
    _custom_font_weight_label(LabelFontWeight(o)),
    _custom_font_weight_title(TitleFontWeight(o)),
    theme_grid(o.grid),
    theme_height(o.height),
    theme_width(o.width),
    o.extra>>

\* Mutant: the fragments are merged into the theme registered before.
Destination_Registered ==
  IF "custom_theme" \in DOMAIN th_registry THEN th_registry["custom_theme"] ELSE {}
\* The destination of the merge: the {} of line 78.
Destination == {}

(***************************************************************************)
(* set_style / get_style: the options and the calls.                       *)
(***************************************************************************)
\* The extra argument: nothing; a leaf that another fragment sets too; new
\* keys; a leaf in the place of a dictionary; an empty dictionary.
ExtraFragments ==
  {{},
   MkDict({<<<<"config", "view", "strokeWidth">>, "2">>}),
   MkDict({<<<<"config", "axis", "labelFontSize">>, "99">>,
           <<<<"background">>, "white">>}),
   MkDict({<<<<"config", "axis">>, "off">>}),
   {DictNode(<<"config">>), DictNode(<<"config", "view">>)}}

\* Every combination of the options of one call.
StyleOptions ==
  [border : BOOLEAN, font_family : {None, "Lato"}, font_size : {None, "10"},
   font_size_label : {None, "11"}, font_size_title : {None, "12"},
   font_weight : {None, "normal"}, font_weight_label : {None, "bold"},
   font_weight_title : {None, "lighter"}, google_font : {FALSE},
   grid : BOOLEAN, height : {"100", "200"}, width : {"100"},
   extra : ExtraFragments]

\* The options of the calls of a sequence; the others keep their defaults.
CallOptions ==
  [border : BOOLEAN, font_family : {None, "Lato"}, font_size : {None, "10"},
   font_size_label : {None}, font_size_title : {None},
   font_weight : {"normal"}, font_weight_label : {None},
   font_weight_title : {None}, google_font : BOOLEAN,
   grid : {FALSE}, height : {"100"}, width : {"100"},
   extra : {{},
            MkDict({<<<<"config", "view", "strokeWidth">>, "2">>}),
            MkDict({<<<<"background">>, "white">>})}]

DefaultOptions ==
  [border |-> FALSE, font_family |-> None, font_size |-> None,
   font_size_label |-> None, font_size_title |-> None,
   font_weight |-> "normal", font_weight_label |-> None,
   font_weight_title |-> None, google_font |-> FALSE,
   grid |-> FALSE, height |-> "100", width |-> "100", extra |-> {}]

\* The theme the charting library enables by default.
DefaultTheme ==
  MkDict({<<<<"config", "view", "continuousWidth">>, "400">>,
          <<<<"config", "view", "continuousHeight">>, "300">>})

THInit ==
  /\ th_registry = [n \in {"default"} |-> DefaultTheme]
  /\ th_active = "default"
  /\ th_opts = DefaultOptions
  /\ th_calls = 0
  /\ th_ret = [fn |-> None, value |-> {}, html |-> FALSE]

\* Mutant: the theme is registered but not enabled.
EnabledAfterSetStyle_Stale == th_active
\* alt.themes.enable("custom_theme")
EnabledAfterSetStyle == "custom_theme"

\* set_style(**o): lines 55-104.
SetStyle(o) ==
  /\ th_registry' = [n \in DOMAIN th_registry \cup {"custom_theme"} |->
                       IF n = "custom_theme"
                       THEN Merge(Destination, StyleFragments(o))
                       ELSE th_registry[n]]
  /\ th_active' = EnabledAfterSetStyle
  /\ th_opts' = o
  /\ th_calls' = th_calls + 1
  /\ th_ret' = [fn |-> "set_style", value |-> {},
                html |-> (o.google_font /\ o.font_family # None)]
  /\ UNCHANGED thOthers

\* get_style(): alt.themes.get()()
GetStyle ==
  /\ th_ret' = [fn |-> "get_style", value |-> th_registry[th_active], html |-> FALSE]
  /\ UNCHANGED <<th_registry, th_active, th_opts, th_calls>>
  /\ UNCHANGED thOthers

\* One call with any options, then get_style.
SetStyleOnce == \E o \in StyleOptions : th_calls = 0 /\ SetStyle(o)

\* A call of a sequence.
SetStyleCall == \E o \in CallOptions : th_calls < MaxCalls /\ SetStyle(o)


(***************************************************************************)
(* Claims about set_style and get_style.                                   *)
(***************************************************************************)
ActiveTheme == th_registry[th_active]

\* The theme a set_style call with options o builds on its own.
ExpectedTheme(o) == Merge({}, StyleFragments(o))

\* C8: after any sequence of set_style and get_style calls with at least
\* one set_style, the active theme is exactly the theme built from the
\* options of the most recent set_style call, with nothing of earlier calls
\* in it, get_style returns it, and get_style leaves it as it is.
C8_ActiveTheme ==
  th_calls > 0 =>
    /\ th_active = "custom_theme"
    /\ ActiveTheme = ExpectedTheme(th_opts)
    /\ th_ret.fn = "get_style" => th_ret.value = ExpectedTheme(th_opts)

C8_Witness ==
  /\ th_calls = 3
  /\ th_ret.fn = "get_style"
  /\ th_opts.border /\ th_opts.font_size = None /\ th_opts.extra = {}
  /\ th_ret.value = MkDict({<<<<"config", "axis", "grid">>, "False">>,
                            <<<<"config", "axis", "labelFontWeight">>, "normal">>,
                            <<<<"config", "header", "labelFontWeight">>, "normal">>,
                            <<<<"config", "legend", "labelFontWeight">>, "normal">>,
                            <<<<"config", "axis", "titleFontWeight">>, "normal">>,
                            <<<<"config", "header", "titleFontWeight">>, "normal">>,
                            <<<<"config", "legend", "titleFontWeight">>, "normal">>,
                            <<<<"config", "view", "continuousHeight">>, "100">>,
                            <<<<"config", "view", "discreteHeight">>, "100">>,
                            <<<<"config", "view", "continuousWidth">>, "100">>,
                            <<<<"config", "view", "discreteWidth">>, "100">>}
                           \cup (IF th_opts.font_family = None THEN {}
                                 ELSE {<<<<"config", "title", "font">>, "Lato">>,
                                       <<<<"config", "axis", "labelFont">>, "Lato">>,
                                       <<<<"config", "axis", "titleFont">>, "Lato">>,
                                       <<<<"config", "header", "labelFont">>, "Lato">>,
                                       <<<<"config", "header", "titleFont">>, "Lato">>,
                                       <<<<"config", "legend", "labelFont">>, "Lato">>,
                                       <<<<"config", "legend", "titleFont">>, "Lato">>}))

\* The value the final theme holds at leaf path p for an option whose value
\* is v: the leaf v, or no key at all when the option is unset; where the
\* extra fragment collides with p, extra decides.
OptionLeaf(p, v) ==
  \/ Collides(th_opts.extra, p)
  \/ IF v = None THEN ~HasKey(ActiveTheme, p) ELSE Leaf(p, v) \in ActiveTheme

Groups == {"axis", "header", "legend"}

Num(v) == [t |-> "num", n |-> v, s |-> ""]
Str(x) == [t |-> "str", n |-> 0, s |-> x]

\* The a-th array of a call, of shape (S, D); its entries are pairwise
\* different and differ from those of the other arrays.
NpArray(a, S, D) ==
  [ncols |-> D, rows |-> [r \in 1..S |-> [c \in 1..D |-> 100 * a + 10 * r + c]]]

NpDims == {1, 2}

SampleLists ==
  UNION {{[a \in 1..k |-> NpArray(a, sh[a][1], sh[a][2])] :
            sh \in [1..k -> (0..MaxRows) \X NpDims]} : k \in 0..MaxArrays}

\* Lists of length k over the set S.
ListsOf(S, k) == [1..k -> S]

LabelsSamplesArgs ==
  {[kind |-> None, vals |-> <<>>], [kind |-> "str", vals |-> <<"s">>]}
  \cup {[kind |-> "list", vals |-> v] :
          v \in UNION {ListsOf({"s", "t"}, k) : k \in 1..MaxArrays}}

LabelsDimArgs ==
  {[kind |-> None, vals |-> <<>>]}
  \cup {[kind |-> "list", vals |-> v] :
          v \in UNION {ListsOf({"x", "y", "samples"}, k) : k \in NpDims}}

DropDimArgs ==
  {[kind |-> None, vals |-> <<>>], [kind |-> "list", vals |-> <<"x">>],
   [kind |-> "list", vals |-> <<"q">>]}

\* f"sample {i+1}" and f"dim {i+1}"
SampleLabel(i) == <<"sample 1", "sample 2", "sample 3", "sample 4">>[i]
DimLabel(i) == <<"dim 1", "dim 2", "dim 3", "dim 4">>[i]

Range(q) == {q[k] : k \in 1..Len(q)}

\* labels_samples after lines 155-158.
EffLabelsSamples ==
  IF labels_samples.kind = None
  THEN [i \in 1..Len(samples) |-> SampleLabel(i)]
  ELSE labels_samples.vals

\* labels_dim after lines 161-162.
EffLabelsDim ==
  IF np_labels_dim.kind = None
  THEN [i \in 1..samples[1].ncols |-> DimLabel(i)]
  ELSE np_labels_dim.vals

\* Mutant: every array is tagged with the first label.
SampleTag_First(i) == EffLabelsSamples[1]
\* labels_samples[i] of line 168.
SampleTag(i) == EffLabelsSamples[i]

\* Lines 167-168: pd.DataFrame(sample, columns=labels_dim), then
\* df[field] = labels_samples[i], which overwrites the columns named field
\* when there are some and appends a column otherwise.
SampleFrame(i) ==
  LET ld == EffLabelsDim
      has == np_field \in Range(ld)
      row(r) == [c \in 1..Len(ld) |->
                   IF ld[c] = np_field THEN Str(SampleTag(i))
                   ELSE Num(samples[i].rows[r][c])]
  IN [columns |-> IF has THEN ld ELSE Append(ld, np_field),
      rows |-> [r \in 1..Len(samples[i].rows) |->
                  IF has THEN row(r) ELSE Append(row(r), Str(SampleTag(i)))]]

\* pd.concat(dfs, ignore_index=True): the rows of frames i.. in order.
RECURSIVE ConcatRows(_)
ConcatRows(i) ==
  IF i > Len(samples) THEN <<>> ELSE SampleFrame(i).rows \o ConcatRows(i + 1)

\* The positions of the columns that df.drop(columns=labels) keeps.
KeptColumns(columns, labels) == {c \in 1..Len(columns) : columns[c] \notin Range(labels)}

\* q restricted to the positions in keep, in order.
RECURSIVE Restrict(_, _, _)
Restrict(q, keep, c) ==
  IF c > Len(q) THEN <<>>
  ELSE (IF c \in keep THEN <<q[c]>> ELSE <<>>) \o Restrict(q, keep, c + 1)

DropColumns(df, labels) ==
  LET keep == KeptColumns(df.columns, labels) IN
  [columns |-> Restrict(df.columns, keep, 1),
   rows |-> [r \in 1..Len(df.rows) |-> Restrict(df.rows[r], keep, 1)]]

\* The exception np2df stops with, or None.
Np2dfError ==
  IF Len(samples) = 0 THEN "IndexError"
  ELSE IF \E i \in 1..Len(samples) : samples[i].ncols # samples[1].ncols
    THEN "AssertionError"
  ELSE IF Len(EffLabelsSamples) # Len(samples) THEN "AssertionError"
  ELSE IF Len(EffLabelsDim) # samples[1].ncols THEN "AssertionError"
  ELSE IF /\ drop_dim.kind # None
          /\ ~(Range(drop_dim.vals) \subseteq Range(SampleFrame(1).columns))
    THEN "KeyError"
  ELSE None

Np2dfResult ==
  LET df == [columns |-> SampleFrame(1).columns, rows |-> ConcatRows(1)] IN
  IF drop_dim.kind # None THEN DropColumns(df, drop_dim.vals) ELSE df

EmptyFrame == [columns |-> <<>>, rows |-> <<>>]

NPInit ==
  /\ np_pc = "start"
  /\ np_err = None
  /\ samples \in SampleLists
  /\ is_list \in BOOLEAN
  /\ ~is_list => Len(samples) = 1
  /\ np_field = "samples"
  /\ labels_samples \in LabelsSamplesArgs
  /\ np_labels_dim \in LabelsDimArgs
  /\ drop_dim \in DropDimArgs
  /\ np_df = EmptyFrame

NPIdle ==
  /\ np_pc = "idle"
  /\ np_err = None
  /\ samples = <<>>
  /\ is_list = FALSE
  /\ np_field = "samples"
  /\ labels_samples = [kind |-> None, vals |-> <<>>]
  /\ np_labels_dim = [kind |-> None, vals |-> <<>>]
  /\ drop_dim = [kind |-> None, vals |-> <<>>]
  /\ np_df = EmptyFrame

\* np2df(samples, field, labels_samples, labels_dim, drop_dim): lines 148-176.
Np2df ==
  /\ np_pc = "start"
  /\ IF Np2dfError # None
     THEN /\ np_pc' = "aborted"
          /\ np_err' = Np2dfError
          /\ np_df' = np_df
     ELSE /\ np_pc' = "done"
          /\ np_err' = None
          /\ np_df' = Np2dfResult
  /\ UNCHANGED <<samples, is_list, np_field, labels_samples, np_labels_dim, drop_dim>>
  /\ UNCHANGED npOthers

(***************************************************************************)
(* Claims about np2df.                                                     *)
(***************************************************************************)
\* Position of the sample-identifier column of the returned table.
FieldColumn == CHOOSE c \in 1..Len(np_df.columns) : np_df.columns[c] = np_field

\* The rows of the group of a sample label, in table order.
GroupRows(label) ==
  SelectSeq(np_df.rows, LAMBDA row : row[FieldColumn] = Str(label))

\* The numeric block of a group: the field column dropped.
GroupBlock(label) ==
  LET g == DropColumns([columns |-> np_df.columns, rows |-> GroupRows(label)],
                       <<np_field>>)
  IN [r \in 1..Len(g.rows) |-> [c \in 1..Len(g.rows[r]) |-> g.rows[r][c].n]]

\* The rows of the arrays i.. tagged with a label, in input order.
RECURSIVE RowsTagged(_, _)
RowsTagged(label, i) ==
  IF i > Len(samples) THEN <<>>
  ELSE (IF EffLabelsSamples[i] = label THEN samples[i].rows ELSE <<>>)
       \o RowsTagged(label, i + 1)

RECURSIVE TotalRows(_)
TotalRows(i) == IF i > Len(samples) THEN 0 ELSE Len(samples[i].rows) + TotalRows(i + 1)

Returned == np_pc = "done" /\ drop_dim.kind = None

\* C10 as stated: for every array of shape (S, D) with D dimension labels
\* the table has S rows and the group of its sample label, the field
\* dropped, is the original block in the original order; for a list of
\* arrays the group of each sample label is that array's block.
C10_AsStated ==
  Returned =>
    /\ Len(samples) = 1 => Len(np_df.rows) = Len(samples[1].rows)
    /\ \A i \in 1..Len(samples) :
         /\ np_field \in Range(np_df.columns)
         /\ GroupBlock(EffLabelsSamples[i]) = samples[i].rows

\* C10 (amended): when no dimension label equals the sample-identifier
\* field name (and no drop_dim is given), the table has one row per input
\* row, S for one array, and the group of a sample label, the field
\* dropped, is the rows of the arrays tagged with that label, in input
\* order and with the columns in the original order: the array's own block
\* when the sample labels are pairwise distinct.
C10_RoundTrip ==
  (Returned /\ np_field \notin Range(EffLabelsDim)) =>
    /\ Len(np_df.rows) = TotalRows(1)
    /\ Len(samples) = 1 => Len(np_df.rows) = Len(samples[1].rows)
    /\ np_df.columns = Append(EffLabelsDim, np_field)
    /\ \A i \in 1..Len(samples) :
         /\ GroupBlock(EffLabelsSamples[i]) = RowsTagged(EffLabelsSamples[i], 1)
         /\ (\A j \in 1..Len(samples) :
               EffLabelsSamples[j] = EffLabelsSamples[i] => j = i)
            => GroupBlock(EffLabelsSamples[i]) = samples[i].rows

C10_Witness ==
  /\ Returned
  /\ Len(samples) = 2
  /\ labels_samples = [kind |-> "list", vals |-> <<"t", "s">>]
  /\ np_labels_dim = [kind |-> "list", vals |-> <<"y", "x">>]
  /\ GroupBlock("s") = <<<<211, 212>>, <<221, 222>>>>
  /\ GroupBlock("t") = <<<<111, 112>>>>

(***************************************************************************)
(* rgb2hex and hex2rgb (src/deneb/utils.py).  A string is the sequence of  *)
(* its characters.                                                         *)
(***************************************************************************)
HexDigits == <<"0", "1", "2", "3", "4", "5", "6", "7",
               "8", "9", "a", "b", "c", "d", "e", "f">>

UpperHexDigits == <<"0", "1", "2", "3", "4", "5", "6", "7",
                    "8", "9", "A", "B", "C", "D", "E", "F">>

\* format(n, "x"): the digits of n in base 16, lowercase, most significant
\* first, at least one digit.
RECURSIVE ToHex(_)
ToHex(n) ==
  IF n < Len(HexDigits) THEN <<HexDigits[n + 1]>>
  ELSE ToHex(n \div Len(HexDigits)) \o <<HexDigits[(n % Len(HexDigits)) + 1]>>

\* The "0w" part of a format specification: zeros on the left up to width w.
RECURSIVE ZeroPad(_, _)
ZeroPad(s, w) == IF Len(s) >= w THEN s ELSE ZeroPad(<<"0">> \o s, w)

\* The same field without the padding: "{:x}".
Format02x_Unpadded(n) == ToHex(n)

\* "{:02x}".format(n)
Format02x(n) == ZeroPad(ToHex(n), 2)

\* rgb2hex(r, g, b): line 27.
rgb2hex(r, g, b) == <<"#">> \o Format02x(r) \o Format02x(g) \o Format02x(b)

\* s.lstrip(ch): every leading ch removed.
RECURSIVE LStrip(_, _)
LStrip(s, ch) == IF s # <<>> /\ Head(s) = ch THEN LStrip(Tail(s), ch) ELSE s

\* s[i:j] for 0 <= i <= j: clipped to the length of s.
Slice(s, i, j) == SubSeq(s, i + 1, IF j < Len(s) THEN j ELSE Len(s))

IsHexDigit(ch) ==
  \E k \in 1..Len(HexDigits) : ch \in {HexDigits[k], UpperHexDigits[k]}

DigitValue(ch) ==
  (CHOOSE k \in 1..Len(HexDigits) : ch \in {HexDigits[k], UpperHexDigits[k]}) - 1

\* Whether int(s, 16) accepts s: a nonempty run of hexadecimal digits (the
\* signs, prefixes, blanks and underscores int also accepts do not occur in
\* what rgb2hex writes).
IsHex(s) == s # <<>> /\ \A k \in 1..Len(s) : IsHexDigit(s[k])

\* int(s, 16)
RECURSIVE Int16(_)
Int16(s) ==
  IF s = <<>> THEN 0
  ELSE Int16(SubSeq(s, 1, Len(s) - 1)) * Len(HexDigits) + DigitValue(s[Len(s)])

\* hex2rgb(hex): lines 32-33; the three slices of h.
HexSlices(hex) ==
  LET h == LStrip(hex, "#")
  IN [k \in 1..3 |-> Slice(h, 2 * (k - 1), 2 * (k - 1) + 2)]

Hex2rgbError(hex) ==
  IF \E k \in 1..3 : ~IsHex(HexSlices(hex)[k]) THEN "ValueError" ELSE None

hex2rgb(hex) == [k \in 1..3 |-> Int16(HexSlices(hex)[k])]

\* The byte triples of the model: every value of one component against a
\* few values of the other two (both digits zero, one digit, two digits,
\* both digits f).
ByteSamples == {0, 10, 16, 255}

Bytes == 0..255

ByteTriples ==
  (Bytes \X ByteSamples \X ByteSamples)
    \cup (ByteSamples \X Bytes \X ByteSamples)
    \cup (ByteSamples \X ByteSamples \X Bytes)

HXInit ==
  /\ hx_pc = "start"
  /\ \E t \in ByteTriples : hx_r = t[1] /\ hx_g = t[2] /\ hx_b = t[3]
  /\ hx_hex = <<>>
  /\ hx_err = None
  /\ hx_rgb = <<>>

HXIdle ==
  /\ hx_pc = "idle"
  /\ hx_r = 0
  /\ hx_g = 0
  /\ hx_b = 0
  /\ hx_hex = <<>>
  /\ hx_err = None
  /\ hx_rgb = <<>>

\* rgb2hex(r, g, b): lines 25-27.
Rgb2Hex ==
  /\ hx_pc = "start"
  /\ hx_pc' = "formatted"
  /\ hx_hex' = rgb2hex(hx_r, hx_g, hx_b)
  /\ UNCHANGED <<hx_r, hx_g, hx_b, hx_err, hx_rgb>>
  /\ UNCHANGED hxOthers

\* hex2rgb(hex) on what rgb2hex returned: lines 30-33.
Hex2Rgb ==
  /\ hx_pc = "formatted"
  /\ IF Hex2rgbError(hx_hex) # None
     THEN /\ hx_pc' = "aborted"
          /\ hx_err' = Hex2rgbError(hx_hex)
          /\ hx_rgb' = hx_rgb
     ELSE /\ hx_pc' = "parsed"
          /\ hx_err' = None
          /\ hx_rgb' = hex2rgb(hx_hex)
  /\ UNCHANGED <<hx_r, hx_g, hx_b, hx_hex>>
  /\ UNCHANGED hxOthers

(***************************************************************************)
(* Claims about rgb2hex and hex2rgb.                                       *)
(***************************************************************************)
\* C11: for every byte triple (r, g, b), each component in 0..255,
\* rgb2hex writes "#" and six hexadecimal digits, and hex2rgb of that
\* string returns (r, g, b): the round trip never aborts and loses nothing.
C11_RoundTrip ==
  /\ hx_pc # "aborted"
  /\ hx_pc \in {"formatted", "parsed"} =>
       /\ Len(hx_hex) = 7
       /\ hx_hex[1] = "#"
  /\ hx_pc = "parsed" => hx_rgb = <<hx_r, hx_g, hx_b>>

C11_Witness ==
  /\ hx_pc = "parsed"
  /\ <<hx_r, hx_g, hx_b>> = <<10, 0, 255>>
  /\ hx_hex = <<"#", "0", "a", "0", "0", "f", "f">>
  /\ hx_rgb = <<10, 0, 255>>

(***************************************************************************)
(* convert_file (src/deneb/utils.py).  A path is its directory, the stem   *)
(* and the suffix of its last component; the command is the sequence of    *)
(* the pieces it was built from, each either literal text or the value a   *)
(* replacement field was filled with.                                      *)
(***************************************************************************)
Path(abs, dir, stem, suffix) ==
  [abs |-> abs, dir |-> dir, stem |-> stem, suffix |-> suffix]

NoPath == Path(FALSE, "", "", "")

\* The working directory of the process.
Cwd == "/home/user/work"

\* Path.absolute(): line 57.
Absolute(p) ==
  IF p.abs THEN p
  ELSE Path(TRUE, IF p.dir = "" THEN Cwd ELSE Cwd \o "/" \o p.dir,
            p.stem, p.suffix)

\* Path.with_suffix(suffix): line 58.
WithSuffix(p, suffix) == [p EXCEPT !.suffix = suffix]

\* str(path)
PathStr(p) ==
  IF p.dir = "" THEN p.stem \o p.suffix ELSE p.dir \o "/" \o p.stem \o p.suffix

DecDigits == <<"0", "1", "2", "3", "4", "5", "6", "7", "8", "9">>

\* str(n) for a natural number n, as a replacement field writes it.
RECURSIVE IntStr(_)
IntStr(n) ==
  IF n < Len(DecDigits) THEN DecDigits[n + 1]
  ELSE IntStr(n \div Len(DecDigits)) \o DecDigits[(n % Len(DecDigits)) + 1]

Lit(text) == [text |-> text, field |-> FALSE]
Val(text) == [text |-> text, field |-> TRUE]

\* Line 58.
FnNew(fn, to) == WithSuffix(Absolute(fn), "." \o to)

\* Line 60: an f-string with three replacement fields.
BaseCmd(fn, to, dpi) ==
  <<Lit("inkscape --export-filename="), Val(PathStr(FnNew(fn, to))),
    Lit(" "), Val(PathStr(Absolute(fn))),
    Lit(" --export-dpi="), Val(IntStr(dpi))>>

\* Lines 62-63: a plain string literal, braces included.
BackgroundOption(background) ==
  IF background # None
  THEN <<Lit(" --export-background='{background}'")>>
  ELSE <<>>

\* Lines 65-68.
Redirect(dbg) == IF dbg THEN <<>> ELSE <<Lit(" &> /dev/null")>>

ConvertPaths ==
  {Path(FALSE, "", "fig", ".svg"), Path(FALSE, "out", "fig", ".svg"),
   Path(TRUE, "/data", "fig", ".svg"), Path(FALSE, "", "fig.tar", ".svg"),
   Path(FALSE, "", "fig", "")}

ConvertFormats == {"png", "pdf"}

ConvertDpis == {72, 300}

ConvertBackgrounds == {None, "white", "#ffffff"}

CVInit ==
  /\ cv_pc = "start"
  /\ cv_fn \in ConvertPaths
  /\ cv_to \in ConvertFormats
  /\ cv_dpi \in ConvertDpis
  /\ cv_background \in ConvertBackgrounds
  /\ cv_debug \in BOOLEAN
  /\ cv_cmd = <<>>
  /\ cv_printed = FALSE
  /\ cv_ret = NoPath

CVIdle ==
  /\ cv_pc = "idle"
  /\ cv_fn = NoPath
  /\ cv_to = "png"
  /\ cv_dpi = 300
  /\ cv_background = None
  /\ cv_debug = FALSE
  /\ cv_cmd = <<>>
  /\ cv_printed = FALSE
  /\ cv_ret = NoPath

UTIdle == HXIdle /\ CVIdle

\* convert_file(fn, to, dpi, background, debug): lines 57-72.
ConvertFile ==
  /\ cv_pc = "start"
  /\ cv_pc' = "done"
  /\ cv_cmd' = BaseCmd(cv_fn, cv_to, cv_dpi) \o BackgroundOption(cv_background)
                 \o Redirect(cv_debug)
  /\ cv_printed' = cv_debug
  /\ cv_ret' = FnNew(cv_fn, cv_to)
  /\ UNCHANGED <<cv_fn, cv_to, cv_dpi, cv_background, cv_debug>>
  /\ UNCHANGED cvOthers

(***************************************************************************)
(* Claims about convert_file.                                              *)
(***************************************************************************)
\* The values the replacement fields of the command were filled with.
Interpolated == {cv_cmd[k].text : k \in {j \in 1..Len(cv_cmd) : cv_cmd[j].field}}

\* C12: the command interpolates the source file path, the output path
\* (the source path with its suffix replaced by the target format), the
\* resolution and, whenever a background colour is given, the value of that
\* background colour; the function returns the output path.
C12_Interpolation ==
  cv_pc = "done" =>
    /\ PathStr(Absolute(cv_fn)) \in Interpolated
    /\ PathStr(WithSuffix(Absolute(cv_fn), "." \o cv_to)) \in Interpolated
    /\ IntStr(cv_dpi) \in Interpolated
    /\ cv_background # None => cv_background \in Interpolated
    /\ cv_ret = WithSuffix(Absolute(cv_fn), "." \o cv_to)

\* The part of C12 that does not depend on the background colour.
C12_PathsAndDpi ==
  cv_pc = "done" =>
    /\ PathStr(Absolute(cv_fn)) \in Interpolated
    /\ PathStr(WithSuffix(Absolute(cv_fn), "." \o cv_to)) \in Interpolated
    /\ IntStr(cv_dpi) \in Interpolated
    /\ cv_ret = WithSuffix(Absolute(cv_fn), "." \o cv_to)

\* A run with a background colour: the command carries the text
\* {background}, not the colour.
C12_BackgroundRun ==
  /\ cv_pc = "done"
  /\ cv_fn = Path(FALSE, "", "fig", ".svg")
  /\ cv_background = "white"
  /\ cv_dpi = 300
  /\ ~cv_debug
  /\ cv_cmd = <<Lit("inkscape --export-filename="),
                Val("/home/user/work/fig.png"), Lit(" "),
                Val("/home/user/work/fig.svg"), Lit(" --export-dpi="),
                Val("300"), Lit(" --export-background='{background}'"),
                Lit(" &> /dev/null")>>

(***************************************************************************)
(* Matrix used directly: after fields, the passes are called in any order  *)
(* and any number of times, then render.                                   *)
(***************************************************************************)
MatrixReady == pc \in {"fields", "passes"}

\* Matrix.upper(make_upper): lines 233-242.
MatrixUpper ==
  /\ MatrixReady /\ Len(passes) < MaxPasses
  /\ pc' = "passes"
  /\ grid' = UpperGrid(grid)
  /\ passes' = Append(passes, "upper")
  /\ UNCHANGED <<err, df_columns, field, limits, debug, interactive, labels_dim,
                 limits_dim, rows, cols, chart>>
  /\ UNCHANGED ppOthers

\* Matrix.diag(make_diag): lines 211-219.
MatrixDiag ==
  /\ MatrixReady /\ Len(passes) < MaxPasses
  /\ pc' = "passes"
  /\ grid' = DiagGrid(grid)
  /\ passes' = Append(passes, "diag")
  /\ UNCHANGED <<err, df_columns, field, limits, debug, interactive, labels_dim,
                 limits_dim, rows, cols, chart>>
  /\ UNCHANGED ppOthers

\* Matrix.lower(make_lower): lines 221-231.
MatrixLower ==
  /\ MatrixReady /\ Len(passes) < MaxPasses
  /\ pc' = "passes"
  /\ grid' = LowerGrid(grid)
  /\ passes' = Append(passes, "lower")
  /\ UNCHANGED <<err, df_columns, field, limits, debug, interactive, labels_dim,
                 limits_dim, rows, cols, chart>>
  /\ UNCHANGED ppOthers

\* Matrix.render(): lines 244-254.
MatrixRender ==
  /\ MatrixReady
  /\ pc' = "rendered"
  /\ chart' = RenderRows(grid, 1)
  /\ UNCHANGED <<err, df_columns, field, limits, debug, interactive, labels_dim,
                 limits_dim, rows, cols, grid, passes>>
  /\ UNCHANGED ppOthers

(***************************************************************************)
(* Claims about Matrix.render.                                             *)
(***************************************************************************)
\* The grid rows with a populated cell, and the populated columns of a row.
PopulatedRows == {i \in DOMAIN grid : \E j \in DOMAIN grid[i] : grid[i][j] # NoneCell}
PopulatedCols(i) == {j \in DOMAIN grid[i] : grid[i][j] # NoneCell}

PassesRun == {passes[k] : k \in 1..Len(passes)}

\* The cells a pass populates.
PassCells(name) ==
  IF name = "upper" THEN UpperCells
  ELSE IF name = "diag" THEN DiagCells
  ELSE LowerCells

\* C15: after fields and any passes in any order, render outputs one row
\* per grid row with a populated cell, in increasing row order, holding
\* that row's populated cells in increasing column order; the grid rows
\* without a populated cell are skipped; after all three passes over N
\* fields the output has N rows of N cells.
C15_Render ==
  pc = "rendered" =>
    /\ Populated = UNION {PassCells(name) : name \in PassesRun}
    /\ Len(chart) = Cardinality(PopulatedRows)
    /\ \A k \in 1..Len(chart) :
         LET i == KthSmallest(PopulatedRows, k) IN
         /\ Len(chart[k]) = Cardinality(PopulatedCols(i))
         /\ Len(chart[k]) > 0
         /\ \A m \in 1..Len(chart[k]) :
              chart[k][m] = grid[i][KthSmallest(PopulatedCols(i), m)]
    /\ PassesRun = {"upper", "diag", "lower"} =>
         /\ Len(chart) = NDims
         /\ \A k \in 1..Len(chart) : Len(chart[k]) = NDims

\* Only the upper pass ran over three fields: the last grid row is empty
\* and skipped.
C15_Witness ==
  /\ pc = "rendered" /\ passes = <<"upper">> /\ NDims = 3
  /\ Len(chart) = 2
  /\ chart[1] = <<grid[1][2], grid[1][3]>>
  /\ chart[2] = <<grid[2][3]>>

\* The three passes in another order than pairplot's: nothing is skipped.
C15_AllPasses ==
  /\ pc = "rendered" /\ passes = <<"lower", "diag", "upper">> /\ NDims = 3
  /\ Len(chart) = 3
  /\ chart[3] = <<grid[3][1], grid[3][2], grid[3][3]>>

PPIdle ==
  /\ pc = "idle"
  /\ err = None
  /\ field = "samples"
  /\ df_columns = <<>>
  /\ limits = [kind |-> None, elems |-> <<>>]
  /\ debug = FALSE
  /\ interactive = FALSE
  /\ labels_dim = <<>>
  /\ limits_dim = <<>>
  /\ rows = <<>>
  /\ cols = <<>>
  /\ grid = <<>>
  /\ chart = <<>>
  /\ passes = <<>>

(***************************************************************************)
(* Specifications: one per recipe; the other recipes stay idle.            *)
(***************************************************************************)
Init == PPInit /\ CMIdle /\ MGIdle /\ THInit /\ NPIdle /\ UTIdle

Next == Validate \/ Fields \/ Upper \/ Diag \/ Lower \/ Render

Spec == Init /\ [][Next]_vars

InitCorr == CMInit /\ PPIdle /\ MGIdle /\ THInit /\ NPIdle /\ UTIdle

NextCorr == CorrFilter \/ CorrMelt \/ CorrLayers \/ CorrSparse

SpecCorr == InitCorr /\ [][NextCorr]_vars

InitMerge == MGInit /\ PPIdle /\ CMIdle /\ THInit /\ NPIdle /\ UTIdle

NextMerge == MergeLeft \/ MergeRight

SpecMerge == InitMerge /\ [][NextMerge]_vars

InitStyle == THInit /\ PPIdle /\ CMIdle /\ MGIdle /\ NPIdle /\ UTIdle

NextStyle == SetStyleOnce \/ GetStyle

SpecStyle == InitStyle /\ [][NextStyle]_vars

NextTheme == SetStyleCall \/ GetStyle

SpecTheme == InitStyle /\ [][NextTheme]_vars

InitNp == NPInit /\ PPIdle /\ CMIdle /\ MGIdle /\ THInit /\ UTIdle

NextNp == Np2df

SpecNp == InitNp /\ [][NextNp]_vars

InitHex == HXInit /\ CVIdle /\ PPIdle /\ CMIdle /\ MGIdle /\ THInit /\ NPIdle

NextHex == Rgb2Hex \/ Hex2Rgb

SpecHex == InitHex /\ [][NextHex]_vars

InitConvert == CVInit /\ HXIdle /\ PPIdle /\ CMIdle /\ MGIdle /\ THInit /\ NPIdle

NextConvert == ConvertFile

SpecConvert == InitConvert /\ [][NextConvert]_vars

NextMatrix ==
  Validate \/ Fields \/ MatrixUpper \/ MatrixDiag \/ MatrixLower \/ MatrixRender

SpecMatrix == Init /\ [][NextMatrix]_vars

=============================================================================
